---- MODULE Spec2Model ----
(***************************************************************************)
(* The Chrome session of lib/chrome.js: the asynchronous startup sequence  *)
(* (_start, _connect), the command dispatcher (send, sendRaw,              *)
(* _enqueueCommand), the message router (_handleMessage) and close over    *)
(* the WebSocket transport (_createWebSocketWrapper).                      *)
(*                                                                         *)
(* One step of the model is one run-to-completion turn of the event loop:  *)
(* a caller's call, a transport callback, or a promise continuation.       *)
(* The transport (the ws socket) and the remote peer are the environment.  *)
(* Caller operations (send, close) are possible once `connect` has handed  *)
(* the session to the caller.  The session operations of a session over    *)
(* an embedded process go through the StdioWrapper, which is not modelled: *)
(* such a session is followed up to its `connect` notification only.       *)
(***************************************************************************)
EXTENDS Integers, Sequences, FiniteSets, TLC

\* ---------------------------------------------------------------- bounds
MaxCmds == 2     \* send/sendRaw calls made on the session
MaxCloses == 2   \* close calls made on the session
MaxTargets == 3  \* entries of the target list the discovery call returns

\* ------------------------------------------------------- WebSocket states
CONNECTING == 0
OPEN == 1
CLOSING == 2
CLOSED == 3

\* ------------------------------------------------------------ JSON values
\* A field of an inbound message is absent, holds a falsy JSON value
\* (null, false, 0, "") or holds a truthy one (an object).
Absent == "absent"
Falsy == "null"
EmptyObj == "{}"

Truthy(v) == v \notin {Absent, Falsy}

\* The error and result fields of the replies the peer may send.
ReplyBodies ==
    {<<"errA", Absent>>, <<"errA", "resA">>, <<Falsy, "resA">>, <<Falsy, Absent>>,
     <<Absent, "resA">>, <<Absent, Falsy>>, <<Absent, Absent>>}
ParamValues == {Absent, "parA"}
\* Method names the peer may put in an event: a protocol event, and names
\* that collide with the session's own signals.
Methods == {"Page.loadEventFired", "ready", "event"}

\* The key of a property every JS object inherits (such as "constructor"),
\* as a reply id; the callback found there is the builtin, not a command's.
InheritedKey == -1

\* A completion callback: the command (call number) it belongs to, and whether
\* it is the caller's own function or the wrapper sendRaw builds for a promise.
Callback(k, st) == [token |-> k, style |-> st]
NoCallback == Callback(0, "none")
ObjectBuiltin == Callback(0, "builtin")

Tokens == 1..MaxCmds
ReplyIds == (1..MaxCmds) \cup {InheritedKey}

NoMsg == [id |-> 0, error |-> Absent, result |-> Absent, method |-> Absent, params |-> Absent]

Replies ==
    {[id |-> i, error |-> b[1], result |-> b[2], method |-> Absent, params |-> Absent] :
        i \in ReplyIds, b \in ReplyBodies}
Events == [id : {0}, error : {Absent}, result : {Absent},
           method : Methods, params : ParamValues]
Messages == Replies \cup Events \cup {NoMsg}

\* The entries of a discovered target list: the type, and the
\* webSocketDebuggerUrl field (absent, falsy or a URL).
TargetEntries == [type : {"page", "background_page"},
                  webSocketDebuggerUrl : {Absent, Falsy, "wsUrl"}]
TargetLists == UNION {[1..n -> TargetEntries] : n \in 0..MaxTargets}
NoInspectableTargets == "No inspectable targets"

VARIABLES
    process,        \* options.process: the session runs over an embedded process
    pc,             \* position of _start
    steps,          \* startup steps run so far, in order
    webSocketUrl,   \* this.webSocketUrl: "unset" or "set"
    connectPromise, \* the promise _connect returns
    failedAt,       \* the startup step that failed, or "none"
    thrown,         \* a startup failure escaped as an exception
    uncaught,       \* a `connect` listener threw outside the startup sequence
    wrapper,        \* "none", "ws" or "stdio"
    readyState,     \* ws.readyState
    rxOpen,         \* the socket can still deliver inbound frames
    closeListener,  \* the 'close' listener of _connect is attached
    msgListener,    \* the 'message' listener of _connect is attached
    onceClose,      \* close calls whose once('close') handler is attached
    closeCalls,     \* number of close calls made
    closeDone,      \* close calls whose completion callback has been invoked
    closedLive,     \* some close call found the socket not yet CLOSED
    nextCommandId,  \* this._nextCommandId
    callbacks,      \* this._callbacks: id -> the callback registered under it
    ackQueue,       \* sends handed to the transport whose ack is not yet reported
    assigned,       \* assigned[k]: the id given to the k-th send call
    completed,      \* commands whose completion callback has been invoked
    replied,        \* ids the peer has replied to after their transmission
    late,           \* commands sent after close or after the reported disconnect
    connects,       \* `connect` notifications emitted
    errors,         \* `error` notifications emitted
    disconnects,    \* `disconnect` notifications emitted
    last            \* what the last step did

vars == <<process, pc, steps, webSocketUrl, connectPromise, failedAt, thrown, uncaught,
          wrapper, readyState, rxOpen, closeListener, msgListener, onceClose,
          closeCalls, closeDone, closedLive, nextCommandId, callbacks, ackQueue,
          assigned, completed, replied, late, connects, errors, disconnects,
          last>>

startVars == <<pc, steps, webSocketUrl, connectPromise, failedAt, thrown, uncaught>>
wsVars == <<wrapper, readyState, rxOpen, closeListener, msgListener, onceClose>>
closeVars == <<closeCalls, closeDone, closedLive>>
cmdVars == <<nextCommandId, callbacks, ackQueue, assigned, completed, replied, late>>
sigVars == <<connects, errors, disconnects>>

\* ------------------------------------------------------------ step record
Sig(name, arg) == [sig |-> name, arg |-> arg]

Step(op) == [op |-> op, msg |-> NoMsg, cb |-> NoCallback, branch |-> "none",
             payload |-> Absent, outcome |-> "none", emitted |-> <<>>,
             before |-> callbacks, idBefore |-> nextCommandId, during |-> <<>>,
             again |-> FALSE, targets |-> <<>>, picked |-> 0]

Count(emitted, name) == Cardinality({i \in 1..Len(emitted) : emitted[i].sig = name})


\* The first await of _start: target resolution, which a session over an
\* embedded process skips (if (!this.process) { ... }).
FirstAwaitAlwaysTarget(proc) == "fetchDebuggerURL"
FirstAwait(proc) == IF proc THEN "fetchProtocol" ELSE "fetchDebuggerURL"

\* ------------------------------------------------------------------ Init
\* The constructor has run: _start is suspended at its first await, which is
\* _fetchDebuggerURL, or _fetchProtocol when options.process is given.
Init ==
    /\ process \in BOOLEAN
    /\ pc = FirstAwait(process)
    /\ steps = <<>>
    /\ webSocketUrl = "unset"
    /\ connectPromise = "none"
    /\ failedAt = "none"
    /\ thrown = FALSE
    /\ uncaught = FALSE
    /\ wrapper = "none"
    /\ readyState = CONNECTING
    /\ rxOpen = FALSE
    /\ closeListener = FALSE
    /\ msgListener = FALSE
    /\ onceClose = {}
    /\ closeCalls = 0
    /\ closeDone = {}
    /\ closedLive = FALSE
    /\ nextCommandId = 1
    /\ callbacks = <<>>
    /\ ackQueue = <<>>
    /\ assigned = <<>>
    /\ completed = {}
    /\ replied = {}
    /\ late = {}
    /\ connects = 0
    /\ errors = 0
    /\ disconnects = 0
    /\ last = [op |-> "new", msg |-> NoMsg, cb |-> NoCallback, branch |-> "none",
               payload |-> Absent, outcome |-> "none", emitted |-> <<>>,
               before |-> <<>>, idBefore |-> 1, during |-> <<>>,
               again |-> FALSE, targets |-> <<>>, picked |-> 0]

\* --------------------------------------------------------------- startup
\* A promise settles once: fulfill() and reject() of _connect.
SettleAgain(p, outcome) == outcome
Settle(p, outcome) == IF p = "pending" THEN outcome ELSE p

\* A failure inside the try block is caught and re-emitted through `error`.
StartFailureUncaught == [pc |-> "errored", errors |-> 0, thrown |-> TRUE]
StartFailure == [pc |-> "errored", errors |-> 1, thrown |-> FALSE]

\* What _start does once `await this._connect()` has returned: it schedules
\* the `connect` notification with process.nextTick and leaves the try block.
AfterConnectInline(listenerThrows) ==
    [pc |-> IF listenerThrows THEN "errored" ELSE "ready",
     connects |-> 1,
     errors |-> IF listenerThrows THEN 1 ELSE 0]
AfterConnect(listenerThrows) == [pc |-> "tick", connects |-> 0, errors |-> 0]

FailAs(step, also, err) ==
    LET f == StartFailure IN
    /\ pc' = f.pc
    /\ errors' = errors + f.errors
    /\ thrown' = f.thrown
    /\ failedAt' = step.op
    /\ last' = [step EXCEPT
                  !.emitted = also \o (IF f.errors > 0
                                       THEN <<Sig("error", <<err>>)>> ELSE <<>>)]
Fail(op, also) == FailAs(Step(op), also, "err")

\* targets.find(...) of defaultTarget: the scan stops at the first entry of
\* type page that has a truthy webSocketDebuggerUrl; backup is the first
\* entry with a truthy webSocketDebuggerUrl met on the way.  Entries are
\* given by their position in the list, 0 standing for undefined.
RECURSIVE Find(_, _, _)
Find(targets, i, backup) ==
    IF i > Len(targets) THEN [target |-> 0, backup |-> backup]
    ELSE IF Truthy(targets[i].webSocketDebuggerUrl)
    THEN LET b == IF backup # 0 THEN backup ELSE i IN
         IF targets[i].type = "page" THEN [target |-> i, backup |-> b]
         ELSE Find(targets, i + 1, b)
    ELSE Find(targets, i + 1, backup)

\* defaultTarget(targets): target || backup, and 0 where it throws
\* 'No inspectable targets'.
DefaultTargetFirstWithUrl(targets) == Find(targets, 1, 0).backup
DefaultTarget(targets) ==
    LET r == Find(targets, 1, 0) IN
    IF r.target # 0 THEN r.target ELSE r.backup

\* await this._fetchDebuggerURL(options) returns or throws.  With the
\* default selector the discovered list goes through defaultTarget; an
\* explicit selector (a URL, an id, an object, the caller's function), the
\* discovery call and alterPath may succeed or fail on their own.
FetchDebuggerURLDone ==
    /\ pc = "fetchDebuggerURL"
    /\ steps' = Append(steps, "target")
    /\ \E sel \in {"default", "explicit"}, ok \in BOOLEAN, targets \in TargetLists :
        LET picked == IF sel = "default" THEN DefaultTarget(targets) ELSE 0
            step == [Step("target") EXCEPT
                       !.branch = sel,
                       !.targets = IF sel = "default" THEN targets ELSE <<>>,
                       !.picked = picked]
        IN
        IF sel = "default" /\ picked = 0
        THEN /\ FailAs(step, <<>>, NoInspectableTargets)
             /\ UNCHANGED webSocketUrl
        ELSE IF ok
        THEN /\ webSocketUrl' = "set"
             /\ pc' = "fetchProtocol"
             /\ last' = step
             /\ UNCHANGED <<errors, failedAt, thrown>>
        ELSE /\ FailAs(step, <<>>, "err")
             /\ UNCHANGED webSocketUrl
    /\ UNCHANGED <<process, connectPromise, uncaught, wsVars, closeVars, cmdVars,
                   connects, disconnects>>

\* await this._fetchProtocol(options) returns or throws; on success
\* api.prepare runs, then _connect creates the wrapper and attaches its
\* listeners, and _start awaits the promise of _connect.
FetchProtocolDone ==
    /\ pc = "fetchProtocol"
    /\ \E protoOk, prepareOk, createOk \in BOOLEAN :
        IF ~protoOk
        THEN /\ steps' = Append(steps, "protocol")
             /\ Fail("protocol", <<>>)
             /\ UNCHANGED <<connectPromise, wsVars>>
        ELSE IF ~prepareOk
        THEN /\ steps' = steps \o <<"protocol", "prepare">>
             /\ Fail("prepare", <<>>)
             /\ UNCHANGED <<connectPromise, wsVars>>
        ELSE IF ~createOk
        THEN /\ steps' = steps \o <<"protocol", "prepare", "transport">>
             /\ connectPromise' = Settle("pending", "rejected")
             /\ Fail("transport", <<>>)
             /\ UNCHANGED wsVars
        ELSE /\ steps' = steps \o <<"protocol", "prepare", "transport">>
             /\ connectPromise' = "pending"
             /\ wrapper' = IF process THEN "stdio" ELSE "ws"
             /\ closeListener' = TRUE
             /\ msgListener' = TRUE
             /\ pc' = "connecting"
             /\ last' = Step("transport")
             /\ UNCHANGED <<readyState, rxOpen, onceClose, errors, failedAt, thrown>>
    /\ UNCHANGED <<process, webSocketUrl, uncaught, closeVars, cmdVars,
                   connects, disconnects>>

\* The wrapper's 'open' listener: fulfill().
WsOpen ==
    /\ pc = "connecting"
    /\ connectPromise' = Settle(connectPromise, "fulfilled")
    /\ pc' = IF connectPromise' = "fulfilled" THEN "resume" ELSE pc
    /\ steps' = Append(steps, "open")
    /\ readyState' = IF wrapper = "ws" THEN OPEN ELSE readyState
    /\ rxOpen' = TRUE
    /\ last' = Step("open")
    /\ UNCHANGED <<process, webSocketUrl, failedAt, thrown, uncaught, wrapper,
                   closeListener, msgListener, onceClose, closeVars, cmdVars, sigVars>>

\* The handshake fails: the wrapper's 'error' listener rejects the promise
\* _start awaits; the socket then emits 'close', which the 'close' listener
\* turns into `disconnect`.
WsConnectError ==
    /\ pc = "connecting"
    /\ connectPromise' = Settle(connectPromise, "rejected")
    /\ LET closeSeen == wrapper = "ws" /\ closeListener IN
       /\ disconnects' = disconnects + (IF closeSeen THEN 1 ELSE 0)
       /\ Fail("connectError", IF closeSeen THEN <<Sig("disconnect", <<>>)>> ELSE <<>>)
    /\ readyState' = IF wrapper = "ws" THEN CLOSED ELSE readyState
    /\ UNCHANGED <<process, steps, webSocketUrl, uncaught, wrapper, rxOpen,
                   closeListener, msgListener, onceClose, closeVars, cmdVars, connects>>

\* _start resumes after `await this._connect()`.
StartResume ==
    /\ pc = "resume"
    /\ \E listenerThrows \in BOOLEAN :
        LET r == AfterConnect(listenerThrows) IN
        /\ pc' = r.pc
        /\ connects' = connects + r.connects
        /\ errors' = errors + r.errors
        /\ steps' = IF r.connects > 0 THEN Append(steps, "connect") ELSE steps
        /\ last' = [Step("resume") EXCEPT
                      !.emitted = (IF r.connects > 0 THEN <<Sig("connect", <<>>)>> ELSE <<>>)
                                  \o (IF r.errors > 0 THEN <<Sig("error", <<"err">>)>> ELSE <<>>)]
    /\ UNCHANGED <<process, webSocketUrl, connectPromise, failedAt, thrown, uncaught,
                   wsVars, closeVars, cmdVars, disconnects>>

\* The process.nextTick callback: this._notifier.emit('connect', this).  A
\* listener that throws does so outside _start: the exception is uncaught.
NextTick ==
    /\ pc = "tick"
    /\ connects' = connects + 1
    /\ steps' = Append(steps, "connect")
    /\ \E listenerThrows \in BOOLEAN :
        /\ uncaught' = listenerThrows
        /\ pc' = IF listenerThrows THEN "crashed" ELSE "ready"
    /\ last' = [Step("tick") EXCEPT !.emitted = <<Sig("connect", <<>>)>>]
    /\ UNCHANGED <<process, webSocketUrl, connectPromise, failedAt, thrown, wsVars,
                   closeVars, cmdVars, errors, disconnects>>


\* ------------------------------------------------------ command dispatcher
Put(f, k, v) == [i \in DOMAIN f \cup {k} |-> IF i = k THEN v ELSE f[i]]
Remove(f, k) == [i \in DOMAIN f \ {k} |-> f[i]]

\* const id = this._nextCommandId++
NextIdStuck(n) == n
NextId(n) == n + 1

\* this._callbacks[message.id] = callback: the key is the id captured by the
\* send, not the counter's value when the acknowledgement arrives.
RegisterKeyCurrent(id, next) == next - 1
RegisterKey(id, next) == id

\* ws.send(data, cb): cb reports an error when the socket is not OPEN, and
\* may report a low-level write error when it is.
SendOutcomes(rs) == IF rs = OPEN THEN {FALSE, TRUE} ELSE {TRUE}

\* The completion of a command as its caller sees it: the caller's own
\* callback, or the promise sendRaw returned.
Complete(st, branch) ==
    IF st = "builtin" THEN "none"
    ELSE IF st = "cb"
    THEN CASE branch = "lowlevel" -> "cbLowLevel"
           [] branch = "error" -> "cbError"
           [] OTHER -> "cbSuccess"
    ELSE CASE branch = "lowlevel" -> "rejectedLowLevel"
           [] branch = "error" -> "rejectedProtocol"
           [] OTHER -> "fulfilled"

\* close was invoked, or the socket reported its closure.
Terminal == closeCalls > 0 \/ (wrapper = "ws" /\ readyState = CLOSED)

\* Ids handed to the transport without error and not yet replied to.
SentOkIds ==
    {ackQueue[i].id : i \in {j \in 1..Len(ackQueue) : ~ackQueue[j].err}}
        \cup (DOMAIN callbacks)
Outstanding == SentOkIds \ replied

\* send / sendRaw, from the caller: _enqueueCommand allocates the id and
\* hands the message to the transport; the acknowledgement comes later.
\* The caller's message is the {method, params} that send builds: it has no
\* id of its own, so { id, ...message } carries the allocated id.
Send ==
    /\ pc = "ready"
    /\ wrapper = "ws"
    /\ Len(assigned) < MaxCmds
    /\ \E st \in {"cb", "promise"}, err \in SendOutcomes(readyState) :
        ackQueue' = Append(ackQueue,
                           [cb |-> Callback(Len(assigned) + 1, st), id |-> nextCommandId,
                            err |-> err])
    /\ assigned' = Append(assigned, nextCommandId)
    /\ nextCommandId' = NextId(nextCommandId)
    /\ late' = IF Terminal THEN late \cup {Len(assigned) + 1} ELSE late
    /\ last' = Step("send")
    /\ UNCHANGED <<process, startVars, wsVars, closeVars, callbacks, completed, replied,
                   sigVars>>

\* The ack callback of _enqueueCommand registers the completion callback
\* only when the transport reported no error.
RegistersAlways(err) == TRUE
Registers(err) == ~err

\* The transport reports the outcome of the oldest unacknowledged send.
Ack ==
    /\ pc = "ready"
    /\ ackQueue # <<>>
    /\ LET a == Head(ackQueue) IN
        IF a.err
        THEN /\ completed' = completed \cup {a.cb.token}
             /\ last' = [Step("ack") EXCEPT !.cb = a.cb, !.branch = "lowlevel",
                                            !.payload = "lowErr",
                                            !.outcome = Complete(a.cb.style, "lowlevel"),
                                            !.again = a.cb.token \in completed]
        ELSE /\ last' = [Step("ack") EXCEPT !.cb = a.cb, !.branch = "registered"]
             /\ UNCHANGED completed
    /\ callbacks' = IF Registers(Head(ackQueue).err)
                    THEN Put(callbacks, RegisterKey(Head(ackQueue).id, nextCommandId),
                             Head(ackQueue).cb)
                    ELSE callbacks
    /\ ackQueue' = Tail(ackQueue)
    /\ UNCHANGED <<process, startVars, wsVars, closeVars, nextCommandId, assigned,
                   replied, late, sigVars>>

\* ----------------------------------------------------------- message router
\* this._callbacks[message.id]
Lookup(f, id) ==
    IF id \in DOMAIN f THEN f[id]
    ELSE IF id = InheritedKey THEN ObjectBuiltin
    ELSE NoCallback

\* if (message.error) ... else ...
BranchAlwaysSuccess(msg) == "success"
Branch(msg) == IF Truthy(msg.error) THEN "error" ELSE "success"

\* message.error, or message.result || {}
Payload(msg) ==
    IF Truthy(msg.error) THEN msg.error
    ELSE IF Truthy(msg.result) THEN msg.result
    ELSE EmptyObj

\* The signals an event message is turned into.
EventSignalsWithReady(msg) ==
    <<Sig("event", <<"envelope", msg.method, msg.params>>),
      Sig(msg.method, <<msg.params>>), Sig("ready", <<>>)>>
EventSignals(msg) ==
    <<Sig("event", <<"envelope", msg.method, msg.params>>),
      Sig(msg.method, <<msg.params>>)>>

\* The pending map as it is while the completion callback of a reply runs:
\* the callback is invoked first, delete this._callbacks[message.id] follows.
DuringCallback(f, id) == f

\* What a completion callback, which is caller code, may do before it
\* returns: nothing, or send the next command.
Reentries(cb) ==
    {[send |-> FALSE, st |-> "cb", err |-> FALSE]}
        \cup (IF cb.token \in Tokens /\ Len(assigned) < MaxCmds
              THEN [send : {TRUE}, st : {"cb", "promise"}, err : SendOutcomes(readyState)]
              ELSE {})

\* The wrapper's 'message' listener: JSON.parse, then _handleMessage.
HandleMessage ==
    /\ pc = "ready"
    /\ wrapper = "ws"
    /\ msgListener
    /\ rxOpen
    /\ readyState \in {OPEN, CLOSING}
    /\ \E msg \in Messages :
        IF msg.id # 0
        THEN LET cb == Lookup(callbacks, msg.id) IN
             /\ replied' = IF msg.id \in SentOkIds THEN replied \cup {msg.id} ELSE replied
             /\ IF cb = NoCallback
                THEN /\ last' = [Step("reply") EXCEPT !.msg = msg]
                     /\ UNCHANGED <<nextCommandId, callbacks, ackQueue, assigned,
                                    completed, late>>
                ELSE \E re \in Reentries(cb) :
                     LET after == Remove(callbacks, msg.id) IN
                     /\ callbacks' = after
                     /\ completed' = IF cb.token \in Tokens
                                     THEN completed \cup {cb.token} ELSE completed
                     /\ IF re.send
                        THEN /\ ackQueue' = Append(ackQueue,
                                    [cb |-> Callback(Len(assigned) + 1, re.st),
                                     id |-> nextCommandId, err |-> re.err])
                             /\ assigned' = Append(assigned, nextCommandId)
                             /\ nextCommandId' = NextId(nextCommandId)
                             /\ late' = IF Terminal THEN late \cup {Len(assigned) + 1}
                                        ELSE late
                        ELSE UNCHANGED <<nextCommandId, ackQueue, assigned, late>>
                     /\ last' = [Step("reply") EXCEPT
                                   !.msg = msg, !.cb = cb, !.branch = Branch(msg),
                                   !.payload = Payload(msg),
                                   !.outcome = Complete(cb.style, Branch(msg)),
                                   !.again = cb.token \in completed,
                                   !.during = DuringCallback(callbacks, msg.id),
                                   !.emitted = IF DOMAIN after = {}
                                               THEN <<Sig("ready", <<>>)>> ELSE <<>>]
        ELSE IF Truthy(msg.method)
        THEN /\ last' = [Step("event") EXCEPT !.msg = msg, !.emitted = EventSignals(msg)]
             /\ UNCHANGED cmdVars
        ELSE /\ last' = [Step("ignored") EXCEPT !.msg = msg]
             /\ UNCHANGED cmdVars
    /\ UNCHANGED <<process, startVars, wsVars, closeVars, sigVars>>

\* -------------------------------------------------------------------- close
\* ws.close(): an OPEN socket starts its closing handshake.
WsCloseNoop(rs) == rs
WsCloseState(rs) == IF rs = OPEN THEN CLOSING ELSE rs

\* ws.removeAllListeners('close'): the 'close' listener of _connect is gone.
CloseListenerKept(attached) == attached
CloseListenerAfterClose(attached) == FALSE

\* Neither this._close nor the 'close' listener of _connect touches
\* this._callbacks: the pending commands stay as they are.
PendingFlushedAfterClose(f) == <<>>
PendingAfterClose(f) == f

\* close(callback) / close(): this._close of _createWebSocketWrapper.
Close ==
    /\ pc = "ready"
    /\ wrapper = "ws"
    /\ closeCalls < MaxCloses
    /\ closeCalls' = closeCalls + 1
    /\ IF readyState = CLOSED
       THEN /\ closeDone' = closeDone \cup {closeCalls + 1}
            /\ UNCHANGED <<closedLive, wsVars>>
       ELSE /\ closeListener' = CloseListenerAfterClose(closeListener)
            /\ onceClose' = {closeCalls + 1}
            /\ readyState' = WsCloseState(readyState)
            /\ closedLive' = TRUE
            /\ UNCHANGED <<closeDone, wrapper, rxOpen, msgListener>>
    /\ last' = Step("close")
    /\ callbacks' = PendingAfterClose(callbacks)
    /\ UNCHANGED <<process, startVars, nextCommandId, ackQueue, assigned, completed,
                   replied, late, sigVars>>

\* The socket emits 'close': the 'close' listener of _connect emits
\* `disconnect`; the once-handler of a pending close call removes every
\* listener and invokes that call's callback.
WsCloseEvent ==
    /\ pc = "ready"
    /\ wrapper = "ws"
    /\ readyState \in {OPEN, CLOSING}
    /\ readyState' = CLOSED
    /\ rxOpen' = FALSE
    /\ LET sigs == IF closeListener THEN <<Sig("disconnect", <<>>)>> ELSE <<>> IN
       /\ disconnects' = disconnects + Len(sigs)
       /\ last' = [Step("wsclose") EXCEPT !.emitted = sigs]
    /\ closeDone' = closeDone \cup onceClose
    /\ onceClose' = {}
    /\ msgListener' = IF onceClose # {} THEN FALSE ELSE msgListener
    /\ closeListener' = IF onceClose # {} THEN FALSE ELSE closeListener
    /\ callbacks' = PendingAfterClose(callbacks)
    /\ UNCHANGED <<process, startVars, wrapper, closeCalls, closedLive, nextCommandId,
                   ackQueue, assigned, completed, replied, late, connects, errors>>

\* The peer starts closing (a close frame arrives): no more inbound frames.
WsPeerClosing ==
    /\ pc = "ready"
    /\ wrapper = "ws"
    /\ readyState \in {OPEN, CLOSING}
    /\ rxOpen
    /\ readyState' = CLOSING
    /\ rxOpen' = FALSE
    /\ last' = Step("peerclosing")
    /\ UNCHANGED <<process, startVars, wrapper, closeListener, msgListener, onceClose,
                   closeVars, cmdVars, sigVars>>

\* The socket emits 'error' after it opened: the 'error' listener calls
\* reject() on the promise _start awaited.
WsError ==
    /\ pc = "ready"
    /\ wrapper = "ws"
    /\ readyState \in {OPEN, CLOSING}
    /\ connectPromise' = Settle(connectPromise, "rejected")
    /\ IF connectPromise' # connectPromise
       THEN Fail("wserror", <<>>)
       ELSE /\ last' = Step("wserror")
            /\ UNCHANGED <<pc, errors, failedAt, thrown>>
    /\ readyState' = CLOSING
    /\ rxOpen' = FALSE
    /\ UNCHANGED <<process, steps, webSocketUrl, uncaught, wrapper, closeListener,
                   msgListener, onceClose, closeVars, cmdVars, connects, disconnects>>

Next ==
    \/ FetchDebuggerURLDone
    \/ FetchProtocolDone
    \/ WsOpen
    \/ WsConnectError
    \/ StartResume
    \/ NextTick
    \/ Send
    \/ Ack
    \/ HandleMessage
    \/ Close
    \/ WsCloseEvent
    \/ WsPeerClosing
    \/ WsError

Spec == Init /\ [][Next]_vars

\* ======================================================================
\* Properties
\* ======================================================================
Range(f) == {f[i] : i \in DOMAIN f}

ReadyOnlyWhenIdle ==
    (last.op = "reply" /\ last.cb.token \in Tokens) =>
        /\ (DOMAIN last.before # {} /\ DOMAIN callbacks = {}) =>
               Count(last.emitted, "ready") = 1
        /\ Count(last.emitted, "ready") > 0 => Outstanding = {}

\* C4: after two close calls on a connected session, whether the second
\* came before or after the socket confirmed the first closure, both
\* completion callbacks have been invoked once the socket is closed, and
\* `disconnect` was emitted at most once.
CloseTwiceBothCalled ==
    /\ (closedLive /\ closeCalls >= 2 /\ readyState = CLOSED) => {1, 2} \subseteq closeDone
    /\ disconnects <= 1

DisconnectOnceOrNever ==
    /\ disconnects <= 1
    /\ (wrapper = "ws" /\ readyState = CLOSED /\ ~closedLive) => disconnects = 1
    /\ closedLive => disconnects = 0
    /\ (last.op = "close") => Count(last.emitted, "disconnect") = 0

\* The socket has confirmed a closure the caller asked for: the close
\* callback ran and no `disconnect` was emitted.
DisconnectOnceOrNeverWitness ==
    /\ closedLive
    /\ readyState = CLOSED
    /\ closeDone # {}
    /\ last.op = "wsclose"
    /\ disconnects = 0

\* The peer disconnected a connected session: one `disconnect`.
PeerDisconnectWitness ==
    /\ pc = "ready"
    /\ readyState = CLOSED
    /\ closeCalls = 0
    /\ disconnects = 1

\* C7: `connect` is emitted on a later turn than the one in which _start
\* completes (the tick scheduled by _start), so an error thrown by a
\* `connect` listener is not caught by the startup sequence and is not
\* re-emitted through `error`.
ConnectDeferred ==
    /\ Count(last.emitted, "connect") > 0 =>
          (last.op = "tick" /\ Count(last.emitted, "error") = 0)
    /\ last.op = "resume" => last.emitted = <<>>
    /\ connects > 0 => (errors = 0 /\ failedAt = "none")
    /\ uncaught => (connects = 1 /\ errors = 0 /\ pc # "errored")

\* A `connect` listener threw.
ConnectDeferredWitness ==
    /\ uncaught
    /\ last.op = "tick"
    /\ connects = 1

\* C8: a failure of target resolution, protocol resolution, API preparation
\* or transport connect before Ready is delivered through `error` (once,
\* and not thrown), the startup steps after the failed one are not run, and
\* `connect` is never emitted.
StepsUpTo(step) ==
    LET all == <<"target", "protocol", "prepare", "transport", "open", "connect">>
        from == IF process THEN 2 ELSE 1
        upto == CHOOSE i \in 1..Len(all) : all[i] = step
    IN  SubSeq(all, from, upto)

StartupFailureReported ==
    /\ (failedAt # "none") <=> (pc = "errored")
    /\ pc = "errored" =>
          /\ errors = 1
          /\ ~thrown
          /\ connects = 0
          /\ connectPromise # "fulfilled"
          /\ steps = StepsUpTo(IF failedAt = "connectError" THEN "transport" ELSE failedAt)
          /\ failedAt \in {"target", "protocol", "prepare"} =>
                (wrapper = "none" /\ connectPromise = "none")
          /\ failedAt = "target" => webSocketUrl = "unset"
    /\ errors > 0 => pc = "errored"
    /\ ~thrown

\* The transport failed to connect.
StartupFailureReportedWitness ==
    /\ pc = "errored"
    /\ failedAt = "connectError"
    /\ last.op = "connectError"
    /\ Count(last.emitted, "error") = 1

\* C9 (as claimed): an inbound message with a method and no id triggers
\* `event` with the envelope and then the signal named by its method with
\* the params, exactly once each, invokes no completion callback, leaves
\* the pending map as it was and emits no `ready`.
EventSignalsExactlyOnce ==
    last.op = "event" =>
        /\ Len(last.emitted) = 2
        /\ last.emitted[1] = Sig("event", <<"envelope", last.msg.method, last.msg.params>>)
        /\ last.emitted[2] = Sig(last.msg.method, <<last.msg.params>>)
        /\ Count(last.emitted, "event") = 1
        /\ Count(last.emitted, last.msg.method) = 1
        /\ Count(last.emitted, "ready") = 0
        /\ last.cb = NoCallback
        /\ callbacks = last.before

\* C9 (amended): the two signals are emitted in that order, once each unless
\* the method is itself named `event`; `ready` is emitted only when the
\* method is itself named `ready`; no completion callback is invoked and
\* the pending map is left as it was.
EventSignalsByMethodName ==
    last.op = "event" =>
        /\ Len(last.emitted) = 2
        /\ last.emitted[1] = Sig("event", <<"envelope", last.msg.method, last.msg.params>>)
        /\ last.emitted[2] = Sig(last.msg.method, <<last.msg.params>>)
        /\ last.msg.method # "event" =>
              (Count(last.emitted, "event") = 1 /\ Count(last.emitted, last.msg.method) = 1)
        /\ last.msg.method # "ready" => Count(last.emitted, "ready") = 0
        /\ last.cb = NoCallback
        /\ callbacks = last.before

\* A protocol event arrives while a command is pending.
EventSignalsByMethodNameWitness ==
    /\ last.op = "event"
    /\ last.msg.method = "Page.loadEventFired"
    /\ last.msg.params = "parA"
    /\ DOMAIN callbacks # {}

\* What the caller of a completed command sees, by style.
Seen(st, branch) ==
    IF st = "cb" THEN (IF branch = "error" THEN "cbError" ELSE "cbSuccess")
    ELSE (IF branch = "error" THEN "rejectedProtocol" ELSE "fulfilled")

\* C10 (as claimed): a reply to a pending id that carries an `error` field
\* completes the command in the error branch with that field's content (a
\* promise rejects with a protocol error); otherwise the command succeeds
\* with the `result` field, or with an empty object when `result` is absent.
ReplyBranchByPresence ==
    (last.op = "reply" /\ last.cb.token \in Tokens) =>
        IF last.msg.error # Absent
        THEN /\ last.branch = "error"
             /\ last.payload = last.msg.error
             /\ last.outcome = Seen(last.cb.style, "error")
        ELSE /\ last.branch = "success"
             /\ last.payload = IF last.msg.result # Absent THEN last.msg.result ELSE EmptyObj
             /\ last.outcome = Seen(last.cb.style, "success")

\* C10 (amended): the error branch is taken when the `error` field is
\* truthy (an absent, null, false, 0 or "" error counts as none); otherwise
\* the command succeeds with the `result` field when that is truthy, and
\* with an empty object when `result` is absent or falsy.
ReplyBranchByTruthiness ==
    (last.op = "reply" /\ last.cb.token \in Tokens) =>
        IF last.msg.error \notin {Absent, Falsy}
        THEN /\ last.branch = "error"
             /\ last.payload = last.msg.error
             /\ last.outcome = Seen(last.cb.style, "error")
        ELSE /\ last.branch = "success"
             /\ last.payload = IF last.msg.result \notin {Absent, Falsy}
                               THEN last.msg.result ELSE EmptyObj
             /\ last.outcome = Seen(last.cb.style, "success")

\* A promise-style command is rejected by a reply carrying an error object.
ReplyBranchByTruthinessWitness ==
    /\ last.op = "reply"
    /\ last.cb.token \in Tokens
    /\ last.cb.style = "promise"
    /\ last.msg.error = "errA"
    /\ last.outcome = "rejectedProtocol"

\* C11: when the transport reports a transmission failure, the command's
\* callback is invoked once with the low-level error, nothing is entered in
\* the pending map for its id and no `ready` or `error` is emitted; the
\* callback is registered under its id only when the transmission succeeded.
TransmissionFailureIsLocal ==
    /\ (last.op = "ack" /\ last.branch = "lowlevel") =>
          /\ last.outcome \in {"cbLowLevel", "rejectedLowLevel"}
          /\ last.payload = "lowErr"
          /\ ~last.again
          /\ callbacks = last.before
          /\ assigned[last.cb.token] \notin DOMAIN callbacks
          /\ last.emitted = <<>>
    /\ (last.op = "ack" /\ last.branch = "registered") =>
          /\ callbacks = Put(last.before, assigned[last.cb.token], last.cb)
          /\ last.outcome = "none"
          /\ last.emitted = <<>>
    /\ last.op = "ack" => last.branch \in {"lowlevel", "registered"}
    /\ \A k \in completed :
          /\ \A id \in DOMAIN callbacks : callbacks[id].token # k
          /\ \A i \in 1..Len(ackQueue) : ackQueue[i].cb.token # k

\* A write error is reported for a command sent on an open socket while
\* another command is pending.
TransmissionFailureIsLocalWitness ==
    /\ last.op = "ack"
    /\ last.branch = "lowlevel"
    /\ readyState = OPEN
    /\ closeCalls = 0
    /\ DOMAIN callbacks # {}

\* C12: once the caller has called close, no message the transport delivers
\* invokes a completion callback or emits `event`, a per-method signal or
\* `ready`, the messages that arrive before the socket confirms its closure
\* included.
NoDeliveryAfterClose ==
    closeCalls > 0 =>
        /\ last.op = "event" => last.emitted = <<>>
        /\ last.op = "reply" => last.cb.token \notin Tokens

\* C13: in every startup that reaches `connect` the steps ran in this
\* order: target resolution (not run at all for an embedded process, whose
\* endpoint URL stays unset), protocol resolution, API preparation, creation
\* of the transport, its `open` signal, and only then `connect`; at every
\* moment the steps run so far are a prefix of that sequence.
StartupOrder ==
    /\ Len(steps) <= Len(StepsUpTo("connect"))
    /\ steps = SubSeq(StepsUpTo("connect"), 1, Len(steps))
    /\ connects > 0 =>
          /\ steps = StepsUpTo("connect")
          /\ connectPromise = "fulfilled"
          /\ webSocketUrl = IF process THEN "unset" ELSE "set"
    /\ process => (webSocketUrl = "unset" /\ "target" \notin Range(steps))

\* A session over an embedded process has emitted `connect`.
StartupOrderWitness ==
    /\ process
    /\ connects = 1
    /\ last.op = "tick"
    /\ steps = <<"protocol", "prepare", "transport", "open", "connect">>

\* The positions of the entries of a list that have an endpoint URL, and of
\* those among them that are of type page.
WithUrl(ts) == {i \in 1..Len(ts) : ts[i].webSocketDebuggerUrl \notin {Absent, Falsy}}
PagesWithUrl(ts) == {i \in WithUrl(ts) : ts[i].type = "page"}
First(S) == CHOOSE i \in S : \A j \in S : i <= j

\* C14: with no explicit selector, target resolution picks the first entry
\* of type page that has an endpoint URL; if there is none, the first entry
\* of any type that has an endpoint URL; if no entry has one (the empty list
\* included), it fails with a 'No inspectable targets' error.
DefaultTargetChoice ==
    (last.op = "target" /\ last.branch = "default") =>
        LET ts == last.targets IN
        IF PagesWithUrl(ts) # {}
        THEN /\ last.picked = First(PagesWithUrl(ts))
             /\ Sig("error", <<NoInspectableTargets>>) \notin Range(last.emitted)
        ELSE IF WithUrl(ts) # {}
        THEN /\ last.picked = First(WithUrl(ts))
             /\ Sig("error", <<NoInspectableTargets>>) \notin Range(last.emitted)
        ELSE /\ last.picked = 0
             /\ last.emitted = <<Sig("error", <<NoInspectableTargets>>)>>
             /\ pc = "errored"
             /\ webSocketUrl = "unset"

\* The list starts with a background page that has a URL and a page that
\* has none; the page with a URL that follows them is picked.
DefaultTargetChoiceWitness ==
    /\ last.op = "target"
    /\ last.branch = "default"
    /\ Len(last.targets) = 3
    /\ last.targets[1] = [type |-> "background_page", webSocketDebuggerUrl |-> "wsUrl"]
    /\ last.targets[2] = [type |-> "page", webSocketDebuggerUrl |-> Absent]
    /\ last.targets[3] = [type |-> "page", webSocketDebuggerUrl |-> "wsUrl"]
    /\ last.picked = 3
    /\ webSocketUrl = "set"

\* Only background pages have a URL: the first of them is picked.
DefaultTargetFallbackWitness ==
    /\ last.op = "target"
    /\ last.branch = "default"
    /\ Len(last.targets) = 2
    /\ last.targets[1].webSocketDebuggerUrl = Falsy
    /\ last.targets[2] = [type |-> "background_page", webSocketDebuggerUrl |-> "wsUrl"]
    /\ last.picked = 2

\* C15: when a reply is routed, its id is removed from the pending map
\* before its callback is invoked: while the completion callback for id N
\* runs, N is not in the pending map.
RemoveThenInvoke ==
    (last.op = "reply" /\ last.cb.token \in Tokens) =>
        last.msg.id \notin DOMAIN last.during

\* C16: every id in the pending map is the id of exactly one command that
\* was sent and has not yet been replied to; in particular, once the peer's
\* reply for an id was delivered, before the acknowledgement of its
\* transmission or after it, the map never again holds an entry for that id.
PendingAreUnreplied ==
    \A id \in DOMAIN callbacks :
        /\ Cardinality({k \in 1..Len(assigned) : assigned[k] = id}) = 1
        /\ id \notin replied

\* C17: a reply whose id has no entry in the pending map (an unknown id, or
\* a duplicate of an answered one) is dropped silently: nothing is invoked
\* as its callback, the pending map is unchanged and no signal is emitted;
\* and no command's callback is invoked a second time.
UnknownReplyDropped ==
    /\ (last.op = "reply" /\ last.msg.id \notin DOMAIN last.before) =>
          /\ last.cb = NoCallback
          /\ last.outcome = "none"
          /\ callbacks = last.before
          /\ last.emitted = <<>>
    /\ ~last.again

\* C18: after `connect`, a transport error is reported to the caller through
\* the `error` signal, and it neither invokes nor removes the callback of
\* any pending command.
TransportErrorReported ==
    last.op = "wserror" =>
        /\ Count(last.emitted, "error") = 1
        /\ errors > 0
        /\ last.cb = NoCallback
        /\ callbacks = last.before

\* C19: a close call and a disconnect leave the commands that were sent
\* and not replied to as they are: neither step invokes a completion
\* callback, and neither changes the pending map or the id counter.
CloseLeavesPending ==
    last.op \in {"close", "wsclose"} =>
        /\ last.cb = NoCallback
        /\ last.outcome = "none"
        /\ callbacks = last.before
        /\ nextCommandId = last.idBefore
        /\ \A id \in DOMAIN callbacks : callbacks[id].token \notin completed

\* The socket confirmed the closure the caller asked for while a command
\* was pending.
CloseLeavesPendingWitness ==
    /\ last.op = "wsclose"
    /\ closeDone # {}
    /\ DOMAIN callbacks # {}
    /\ DOMAIN last.before # {}

\* The peer disconnected while a command was pending.
DisconnectLeavesPendingWitness ==
    /\ last.op = "wsclose"
    /\ closeCalls = 0
    /\ Count(last.emitted, "disconnect") = 1
    /\ DOMAIN callbacks # {}

\* C20: whatever the resolvers return and however the transport's open,
\* error and close signals interleave, the startup sequence emits at most
\* one of `connect` and `error`, and at most once: `error` is never followed
\* by `connect`, and a transport error after `open` produces no `error`
\* after `connect`.
ConnectOrErrorOnce ==
    /\ connects + errors <= 1
    /\ pc = "errored" => (connects = 0 /\ errors = 1)
    /\ pc \in {"ready", "crashed"} => (connects = 1 /\ errors = 0)
    /\ last.op = "wserror" =>
          (Count(last.emitted, "error") = 0 /\ Count(last.emitted, "connect") = 0)

\* The socket reported an error after `connect` was emitted.
ConnectOrErrorOnceWitness ==
    /\ last.op = "wserror"
    /\ connectPromise = "fulfilled"
    /\ connects = 1
    /\ errors = 0

====
